---- MODULE Spec2Model ----
(***************************************************************************)
(* A model of serverlessApiMockery: the path router (lib/router.js), the   *)
(* response processor (lib/processor.js) and the engine (index.js).        *)
(*                                                                         *)
(* JavaScript strings are sequences of one-character strings, so that      *)
(* split, trim, toLowerCase, the regular expressions and JSON.stringify    *)
(* are computed character by character.  JavaScript values are records     *)
(* [t, s, n, e]: t is the type tag, s the characters of a string (or the   *)
(* name of a native function), n the number (or 1/0 for a boolean), e the  *)
(* elements of an array or the [k, v] entries of an object in insertion    *)
(* order.                                                                  *)
(***************************************************************************)
EXTENDS Integers, Sequences, FiniteSets, TLC

VARIABLES
  now,      \* Date.now(): the wall clock, in milliseconds
  pc,       \* the operation whose result is held: "idle" or the function's name
  args,     \* the arguments of that call
  ret,      \* what the call produced (a result record, threw = TRUE for a throw)
  cache,    \* this.cache of the ServerlessApiMockery instance: data, timestamp, ttl
  storage,  \* the document the storage backend holds
  procs,    \* the asynchronous calls of the instance's callers, one per caller
  last,     \* the call that was completed last
  mem       \* the objects of a program that uses MemoryAdapter, by reference

vars == <<now, pc, args, ret, cache, storage, procs, last, mem>>

\* the instance: its cache, its backend and the calls in flight
engine == <<cache, storage, procs, last, mem>>

(***************************************************************************)
(* Bounds of the model.                                                    *)
(***************************************************************************)
MaxRoutes == 2      \* longest route list handed to findMatchingRoute
MaxSegs == 2        \* most segments in a path handed to matchPathWithParams
MaxPieces == 2      \* most pieces a template string is put together from
ClockStart == 1999  \* Date.now() when the instance is constructed
MaxTicks == 1       \* how many milliseconds the clock may advance
CacheTtl == 2       \* options.cacheTtl, in milliseconds
MaxTime == 2        \* milliseconds that pass while the instance serves its callers
RouteDelay == 2     \* the delay of the delayed route, in milliseconds
MaxObjects == 2     \* how many document objects the caller of MemoryAdapter creates

(***************************************************************************)
(* JavaScript values.                                                      *)
(***************************************************************************)
Undef == [t |-> "undefined", s |-> <<>>, n |-> 0, e |-> <<>>]
Null == [t |-> "null", s |-> <<>>, n |-> 0, e |-> <<>>]
Bool(b) == [t |-> "boolean", s |-> <<>>, n |-> IF b THEN 1 ELSE 0, e |-> <<>>]
Num(n) == [t |-> "number", s |-> <<>>, n |-> n, e |-> <<>>]
Str(s) == [t |-> "string", s |-> s, n |-> 0, e |-> <<>>]
Arr(e) == [t |-> "array", s |-> <<>>, n |-> 0, e |-> e]
Obj(e) == [t |-> "object", s |-> <<>>, n |-> 0, e |-> e]
Fn(name) == [t |-> "function", s |-> name, n |-> 0, e |-> <<>>]
KV(k, v) == [k |-> k, v |-> v]

\* !!v
Truthy(v) ==
  CASE v.t = "undefined" -> FALSE
    [] v.t = "null" -> FALSE
    [] v.t = "boolean" -> v.n = 1
    [] v.t = "number" -> v.n # 0
    [] v.t = "string" -> v.s # <<>>
    [] OTHER -> TRUE

\* typeof v
TypeOf(v) ==
  CASE v.t = "null" -> "object"
    [] v.t = "array" -> "object"
    [] OTHER -> v.t

\* Array.isArray(v)
IsArray(v) == v.t = "array"

(***************************************************************************)
(* Strings.                                                                *)
(***************************************************************************)
UpperChars == <<"A", "B", "C", "D", "E", "F", "G", "H", "I", "J", "K", "L", "M",
                "N", "O", "P", "Q", "R", "S", "T", "U", "V", "W", "X", "Y", "Z">>
LowerChars == <<"a", "b", "c", "d", "e", "f", "g", "h", "i", "j", "k", "l", "m",
                "n", "o", "p", "q", "r", "s", "t", "u", "v", "w", "x", "y", "z">>
DigitChars == <<"0", "1", "2", "3", "4", "5", "6", "7", "8", "9">>

Range(f) == {f[i] : i \in DOMAIN f}

\* String.prototype.toLowerCase, one character
LowerChar(c) ==
  IF \E i \in DOMAIN UpperChars : UpperChars[i] = c
  THEN LowerChars[CHOOSE i \in DOMAIN UpperChars : UpperChars[i] = c]
  ELSE c

\* String.prototype.toLowerCase
toLowerCase(s) == [i \in 1..Len(s) |-> LowerChar(s[i])]

\* s.startsWith(p, at i) with i counted from 1
StartsWithAt(s, p, i) ==
  /\ i + Len(p) - 1 <= Len(s)
  /\ \A j \in 1..Len(p) : s[i + j - 1] = p[j]

\* String.prototype.startsWith
startsWith(s, p) == StartsWithAt(s, p, 1)

\* String.prototype.substring(from), from counted from 0
substring(s, from) == SubSeq(s, from + 1, Len(s))

RECURSIVE SplitFrom(_, _, _, _)
\* s.split(sep) for a one-character separator: the pieces from position i on,
\* cur being the piece collected so far
SplitFrom(s, sep, i, cur) ==
  IF i > Len(s) THEN <<cur>>
  ELSE IF s[i] = sep THEN <<cur>> \o SplitFrom(s, sep, i + 1, <<>>)
  ELSE SplitFrom(s, sep, i + 1, Append(cur, s[i]))

\* String.prototype.split
split(s, sep) == SplitFrom(s, sep, 1, <<>>)

\* Array.prototype.filter(Boolean) on an array of strings: drops the empty ones
filterBoolean(parts) == SelectSeq(parts, LAMBDA p : p # <<>>)

\* the characters \s matches that the model's strings may hold
IsSpace(c) == c \in {" ", "\t", "\n"}

\* the characters \w matches
IsWordChar(c) == c \in Range(UpperChars) \cup Range(LowerChars) \cup Range(DigitChars) \cup {"_"}

\* the characters \d matches
IsDigit(c) == c \in Range(DigitChars)

\* the first position (from 1) at which p occurs in s, or 0
IndexOf(s, p) ==
  LET at == { i \in 1..(Len(s) + 1) : StartsWithAt(s, p, i) } IN
  IF at = {} THEN 0 ELSE CHOOSE i \in at : \A j \in at : i <= j

\* String.prototype.includes
includes(s, p) == IndexOf(s, p) # 0

\* String.prototype.replace(p, '') for a string pattern: the first occurrence only
removeFirst(s, p) ==
  IF IndexOf(s, p) = 0 THEN s
  ELSE SubSeq(s, 1, IndexOf(s, p) - 1) \o SubSeq(s, IndexOf(s, p) + Len(p), Len(s))

\* String.prototype.trim
trim(s) ==
  LET keep == { i \in DOMAIN s : ~IsSpace(s[i]) } IN
  IF keep = {} THEN <<>>
  ELSE SubSeq(s, CHOOSE i \in keep : \A j \in keep : i <= j,
                 CHOOSE i \in keep : \A j \in keep : i >= j)

RECURSIVE Digits(_)
\* the decimal digits of a natural number
Digits(n) == IF n < 10 THEN <<DigitChars[n + 1]>> ELSE Digits(n \div 10) \o <<DigitChars[(n % 10) + 1]>>

\* Number.prototype.toString of an integer
numberToString(n) == IF n < 0 THEN <<"-">> \o Digits(-n) ELSE Digits(n)

RECURSIVE Flatten(_)
\* the concatenation of a sequence of strings
Flatten(ss) == IF ss = <<>> THEN <<>> ELSE ss[1] \o Flatten(Tail(ss))

RECURSIVE JoinWith(_, _)
\* Array.prototype.join(sep) of strings
JoinWith(ss, sep) ==
  IF ss = <<>> THEN <<>>
  ELSE IF Len(ss) = 1 THEN ss[1]
  ELSE ss[1] \o sep \o JoinWith(Tail(ss), sep)

(***************************************************************************)
(* Property names the code reads.                                          *)
(***************************************************************************)
K_method == <<"m", "e", "t", "h", "o", "d">>
K_path == <<"p", "a", "t", "h">>
K_proto == <<"_", "_", "p", "r", "o", "t", "o", "_", "_">>
K_constructor == <<"c", "o", "n", "s", "t", "r", "u", "c", "t", "o", "r">>
K_toString == <<"t", "o", "S", "t", "r", "i", "n", "g">>
K_length == <<"l", "e", "n", "g", "t", "h">>

\* the properties every value inherits from Object.prototype that the model names
ObjectPrototypeKeys == {K_constructor, K_toString}

HasOwn(obj, key) == \E i \in DOMAIN obj.e : obj.e[i].k = key
OwnValue(obj, key) == obj.e[CHOOSE i \in DOMAIN obj.e : obj.e[i].k = key].v

\* SetProp as a first-binding-wins store: an existing key keeps its value
SetProp_keepFirst(obj, key, val) ==
  IF key = K_proto \/ HasOwn(obj, key) THEN obj
  ELSE Obj(Append(obj.e, KV(key, val)))

\* the keys JavaScript orders as array indices: "0", or digits without a leading zero
IsIndexKey(key) ==
  /\ key # <<>>
  /\ \A i \in DOMAIN key : key[i] \in Range(DigitChars)
  /\ (key[1] = "0" => Len(key) = 1)

\* the value of a decimal digit
DigitValue(c) == (CHOOSE i \in DOMAIN DigitChars : DigitChars[i] = c) - 1

RECURSIVE parseInt(_)
\* parseInt(s, 10) of a string of digits
parseInt(s) ==
  IF s = <<>> THEN 0
  ELSE 10 * parseInt(SubSeq(s, 1, Len(s) - 1)) + DigitValue(s[Len(s)])

\* own properties enumerate index keys first, in ascending order, then the other
\* keys in insertion order: whether entry e comes after a new key
ComesAfter(e, key) ==
  IF IsIndexKey(key)
  THEN ~IsIndexKey(e.k) \/ parseInt(e.k) > parseInt(key)
  ELSE FALSE

\* the entries with a new property placed where enumeration finds it
InsertProp(entries, key, val) ==
  LET after == { i \in DOMAIN entries : ComesAfter(entries[i], key) }
      at == IF after = {} THEN Len(entries) + 1
            ELSE CHOOSE i \in after : \A j \in after : i <= j
  IN SubSeq(entries, 1, at - 1) \o <<KV(key, val)>> \o SubSeq(entries, at, Len(entries))

\* obj[key] = val on a plain object: an existing key keeps its place, a new key is
\* added, and __proto__ is the prototype accessor, which adds no own property (its
\* setter ignores a primitive; an object becomes the prototype, which neither
\* Object.entries nor JSON serialization shows)
SetProp(obj, key, val) ==
  IF key = K_proto THEN obj
  ELSE IF HasOwn(obj, key)
  THEN Obj([i \in DOMAIN obj.e |-> IF obj.e[i].k = key THEN KV(key, val) ELSE obj.e[i]])
  ELSE Obj(InsertProp(obj.e, key, val))

(***************************************************************************)
(* lib/router.js                                                           *)
(***************************************************************************)
NoParams == Obj(<<>>)

RECURSIVE MatchSegments(_, _, _, _)
\* the loop of matchPathWithParams over the segments from i on
MatchSegments(routeParts, requestParts, i, params) ==
  IF i > Len(routeParts) THEN [isMatch |-> TRUE, params |-> params]
  ELSE LET routePart == routeParts[i]
           requestPart == requestParts[i]
       IN IF startsWith(routePart, <<":">>)
          THEN MatchSegments(routeParts, requestParts, i + 1,
                             SetProp(params, substring(routePart, 1), Str(requestPart)))
          ELSE IF routePart # requestPart
          THEN [isMatch |-> FALSE, params |-> NoParams]
          ELSE MatchSegments(routeParts, requestParts, i + 1, params)

\* MockApiRouter.matchPathWithParams(requestPath, routePath), both JavaScript values
matchPathWithParams(requestPath, routePath) ==
  IF \/ ~Truthy(requestPath) \/ ~Truthy(routePath)
     \/ TypeOf(requestPath) # "string" \/ TypeOf(routePath) # "string"
  THEN [isMatch |-> FALSE, params |-> NoParams]
  ELSE LET routeParts == filterBoolean(split(routePath.s, "/"))
           requestParts == filterBoolean(split(requestPath.s, "/"))
       IN IF Len(routeParts) # Len(requestParts)
          THEN [isMatch |-> FALSE, params |-> NoParams]
          ELSE MatchSegments(routeParts, requestParts, 1, NoParams)

\* a[key] for the two keys the router reads of a route entry: an own property of
\* an object, undefined on an array or an object without it
Field(route, key) ==
  IF route.t = "object" /\ HasOwn(route, key) THEN OwnValue(route, key) ELSE Undef

NoRoute == [threw |-> FALSE, route |-> Null, index |-> 0, pathParams |-> NoParams]
TypeError == [threw |-> TRUE, route |-> Null, index |-> 0, pathParams |-> NoParams]

\* route.method.toLowerCase() !== method, for a string route.method
MethodDiffers(routeMethod, method) ==
  ~(method.t = "string" /\ toLowerCase(routeMethod.s) = method.s)

\* entry i passes every test of the loop body
EntryMatches(routes, i, method, path) ==
  /\ Truthy(routes[i]) /\ TypeOf(routes[i]) = "object"
  /\ Truthy(Field(routes[i], K_method)) /\ Truthy(Field(routes[i], K_path))
  /\ Field(routes[i], K_method).t = "string"
  /\ ~MethodDiffers(Field(routes[i], K_method), method)
  /\ matchPathWithParams(path, Field(routes[i], K_path)).isMatch

\* the result for entry i
EntryResult(routes, i, path) ==
  [threw |-> FALSE, route |-> routes[i], index |-> i,
   pathParams |-> matchPathWithParams(path, Field(routes[i], K_path)).params]

\* RouteLoop as a loop that keeps going after a match: the last match wins
RouteLoop_lastMatch(routes, i, method, path) ==
  LET M == { j \in i..Len(routes) : EntryMatches(routes, j, method, path) } IN
  IF M = {} THEN NoRoute
  ELSE EntryResult(routes, CHOOSE j \in M : \A k \in M : k <= j, path)

\* RouteLoop as a most-specific-first choice: a matching entry without parameters
\* is preferred to an earlier matching entry with parameters
RouteLoop_mostSpecific(routes, i, method, path) ==
  LET M == { j \in i..Len(routes) : EntryMatches(routes, j, method, path) }
      L == { j \in M : EntryResult(routes, j, path).pathParams = NoParams }
  IN IF M = {} THEN NoRoute
     ELSE IF L # {} THEN EntryResult(routes, CHOOSE j \in L : \A k \in L : j <= k, path)
     ELSE EntryResult(routes, CHOOSE j \in M : \A k \in M : j <= k, path)

RECURSIVE RouteLoop(_, _, _, _)
\* the for loop of findMatchingRoute from entry i on; index is the position of
\* the returned route object in the list (its identity)
RouteLoop(routes, i, method, path) ==
  IF i > Len(routes) THEN NoRoute
  ELSE LET route == routes[i] IN
    IF ~Truthy(route) \/ TypeOf(route) # "object"
    THEN RouteLoop(routes, i + 1, method, path)
    ELSE IF ~Truthy(Field(route, K_method)) \/ ~Truthy(Field(route, K_path))
    THEN RouteLoop(routes, i + 1, method, path)
    ELSE IF Field(route, K_method).t # "string"
    THEN TypeError    \* route.method.toLowerCase is not a function
    ELSE IF MethodDiffers(Field(route, K_method), method)
    THEN RouteLoop(routes, i + 1, method, path)
    ELSE LET m == matchPathWithParams(path, Field(route, K_path)) IN
      IF m.isMatch
      THEN [threw |-> FALSE, route |-> route, index |-> i, pathParams |-> m.params]
      ELSE RouteLoop(routes, i + 1, method, path)

\* MockApiRouter.findMatchingRoute(routes, method, path)
findMatchingRoute(routes, method, path) ==
  IF ~Truthy(routes) \/ ~IsArray(routes) THEN NoRoute
  ELSE RouteLoop(routes.e, 1, method, path)


(***************************************************************************)
(* Property reads and conversions of JavaScript values.                    *)
(***************************************************************************)
K_name == <<"n", "a", "m", "e">>
T_Object == <<"O", "b", "j", "e", "c", "t">>
T_Array == <<"A", "r", "r", "a", "y">>
T_String == <<"S", "t", "r", "i", "n", "g">>
T_Number == <<"N", "u", "m", "b", "e", "r">>
T_Boolean == <<"B", "o", "o", "l", "e", "a", "n">>
T_Function == <<"F", "u", "n", "c", "t", "i", "o", "n">>
T_function == <<"f", "u", "n", "c", "t", "i", "o", "n", " ">>
T_native == <<"(", ")", " ", "{", " ", "[", "n", "a", "t", "i", "v", "e", " ", "c", "o", "d", "e", "]", " ", "}">>
T_objectObject == <<"[", "o", "b", "j", "e", "c", "t", " ", "O", "b", "j", "e", "c", "t", "]">>
T_null == <<"n", "u", "l", "l">>
T_undefined == <<"u", "n", "d", "e", "f", "i", "n", "e", "d">>
T_true == <<"t", "r", "u", "e">>
T_false == <<"f", "a", "l", "s", "e">>
Quote == "\""
Backslash == "\\"

\* the name of the constructor of a value
ConstructorName(v) ==
  CASE v.t = "object" -> T_Object
    [] v.t = "array" -> T_Array
    [] v.t = "string" -> T_String
    [] v.t = "number" -> T_Number
    [] v.t = "boolean" -> T_Boolean
    [] OTHER -> T_Function

\* the prototype a value inherits from, by what String and JSON.stringify show of
\* it: Object.prototype is an empty object, Array.prototype an empty array,
\* String.prototype wraps "", Number.prototype 0, Boolean.prototype false,
\* Function.prototype is a function
PrototypeOf(v) ==
  CASE v.t = "object" -> Obj(<<>>)
    [] v.t = "array" -> Arr(<<>>)
    [] v.t = "string" -> Str(<<>>)
    [] v.t = "number" -> Num(0)
    [] v.t = "boolean" -> Bool(FALSE)
    [] OTHER -> Fn(<<>>)

\* v[key] found on the prototype chain
Inherited(v, key) ==
  CASE key = K_constructor -> Fn(ConstructorName(v))
    [] key = K_toString -> Fn(K_toString)
    [] key = K_proto -> PrototypeOf(v)
    [] OTHER -> Undef

\* v[key] for v neither undefined nor null: an own property, else an inherited one
Get(v, key) ==
  CASE v.t = "object" ->
         IF HasOwn(v, key) THEN OwnValue(v, key) ELSE Inherited(v, key)
    [] v.t = "array" ->
         IF IsIndexKey(key) /\ parseInt(key) < Len(v.e) THEN v.e[parseInt(key) + 1]
         ELSE IF key = K_length THEN Num(Len(v.e))
         ELSE Inherited(v, key)
    [] v.t = "string" ->
         IF IsIndexKey(key) /\ parseInt(key) < Len(v.s) THEN Str(<<v.s[parseInt(key) + 1]>>)
         ELSE IF key = K_length THEN Num(Len(v.s))
         ELSE Inherited(v, key)
    [] v.t = "function" ->
         IF key = K_length THEN Num(IF v.s \in {K_toString, <<>>} THEN 0 ELSE 1)
         ELSE IF key = K_name THEN Str(v.s)
         ELSE Inherited(v, key)
    [] OTHER -> Inherited(v, key)

RECURSIVE StringOf(_)
\* String(v): the conversion String.prototype.replace applies to what its callback
\* returns, and property assignment to a key
StringOf(v) ==
  CASE v.t = "string" -> v.s
    [] v.t = "number" -> numberToString(v.n)
    [] v.t = "boolean" -> IF v.n = 1 THEN T_true ELSE T_false
    [] v.t = "null" -> T_null
    [] v.t = "undefined" -> T_undefined
    [] v.t = "function" -> T_function \o v.s \o T_native
    [] v.t = "object" -> T_objectObject
    [] OTHER ->
         JoinWith([i \in DOMAIN v.e |->
                     IF v.e[i].t \in {"null", "undefined"} THEN <<>> ELSE StringOf(v.e[i])],
                  <<",">>)

\* JSON.stringify's escaping of one character of a string
JsonEscape(c) ==
  CASE c = Quote -> <<Backslash, Quote>>
    [] c = Backslash -> <<Backslash, Backslash>>
    [] c = "\n" -> <<Backslash, "n">>
    [] c = "\t" -> <<Backslash, "t">>
    [] OTHER -> <<c>>

\* JSON.stringify of a string
JsonString(s) == <<Quote>> \o Flatten([i \in DOMAIN s |-> JsonEscape(s[i])]) \o <<Quote>>

\* the values JSON.stringify does not serialize
Unserializable(v) == v.t \in {"undefined", "function"}

RECURSIVE JsonText(_)
\* the text JSON.stringify produces for a serializable value
JsonText(v) ==
  CASE v.t = "string" -> JsonString(v.s)
    [] v.t = "number" -> numberToString(v.n)
    [] v.t = "boolean" -> IF v.n = 1 THEN T_true ELSE T_false
    [] v.t = "null" -> T_null
    [] v.t = "array" ->
         <<"[">> \o JoinWith([i \in DOMAIN v.e |->
                                IF Unserializable(v.e[i]) THEN T_null ELSE JsonText(v.e[i])],
                             <<",">>) \o <<"]">>
    [] OTHER ->
         LET kept == SelectSeq(v.e, LAMBDA e : ~Unserializable(e.v)) IN
         <<"{">> \o JoinWith([i \in DOMAIN kept |->
                                JsonString(kept[i].k) \o <<":">> \o JsonText(kept[i].v)],
                             <<",">>) \o <<"}">>

\* JSON.stringify(v): a string, or undefined for undefined and for a function
JSONstringify(v) == IF Unserializable(v) THEN Undef ELSE Str(JsonText(v))

RECURSIVE JsonClone(_)
\* JSON.parse(JSON.stringify(v)) of a serializable value: properties that do not
\* serialize are dropped, array elements that do not become null, and the keys
\* of the parsed object enumerate index keys first
JsonClone(v) ==
  CASE v.t = "array" ->
         Arr([i \in DOMAIN v.e |-> IF Unserializable(v.e[i]) THEN Null ELSE JsonClone(v.e[i])])
    [] v.t = "object" ->
         LET kept == SelectSeq(v.e, LAMBDA e : ~Unserializable(e.v))
             Build[i \in 0..Len(kept)] ==
               IF i = 0 THEN <<>>
               ELSE InsertProp(Build[i - 1], kept[i].k, JsonClone(kept[i].v))
         IN Obj(Build[Len(kept)])
    [] OTHER -> v

(***************************************************************************)
(* The regular expressions of lib/processor.js.                            *)
(***************************************************************************)
T_date == <<"{", "d", "a", "t", "e", ":">>
T_params == <<"{", "p", "a", "r", "a", "m", "s", ".">>
T_query == <<"{", "q", "u", "e", "r", "y", ".">>
T_body == <<"{", "b", "o", "d", "y", ".">>
T_ms == <<"(", "m", "s", ")">>
T_currentDate == <<"c", "u", "r", "r", "e", "n", "t", "D", "a", "t", "e">>

\* the character classes [^}] and [\w.]
InClass(cls, c) ==
  IF cls = "notBrace" THEN c # "}" ELSE IsWordChar(c) \/ c = "."

RECURSIVE RunEnd(_, _, _)
\* the last position of the longest run of class characters that starts at k
\* (k - 1 when there is none)
RunEnd(s, k, cls) ==
  IF k <= Len(s) /\ InClass(cls, s[k]) THEN RunEnd(s, k + 1, cls) ELSE k - 1

\* a match of  prefix (class)+ \}  that starts at i: the position of its closing
\* brace, or 0. The class never holds "}", so only the longest run can be followed
\* by one
MatchEnd(s, i, prefix, cls) ==
  IF ~StartsWithAt(s, prefix, i) THEN 0
  ELSE LET k == i + Len(prefix)
           j == RunEnd(s, k, cls)
       IN IF j >= k /\ j < Len(s) /\ s[j + 1] = "}" THEN j + 1 ELSE 0

RECURSIVE Pieces(_, _, _, _, _)
\* s cut at the matches of the global regular expression, left to right and not
\* overlapping: the text between matches (m = FALSE) and the matches (m = TRUE,
\* cap the captured group)
Pieces(s, i, from, prefix, cls) ==
  IF i > Len(s) THEN <<[m |-> FALSE, text |-> SubSeq(s, from, Len(s)), cap |-> <<>>]>>
  ELSE LET end == MatchEnd(s, i, prefix, cls) IN
    IF end = 0 THEN Pieces(s, i + 1, from, prefix, cls)
    ELSE << [m |-> FALSE, text |-> SubSeq(s, from, i - 1), cap |-> <<>>],
            [m |-> TRUE, text |-> SubSeq(s, i, end),
             cap |-> SubSeq(s, i + Len(prefix), end - 1)] >>
         \o Pieces(s, end + 1, end + 1, prefix, cls)

\* str.match(/^\{date:([^}]+)\}$/): whether the whole string is one date placeholder
IsPureDate(str) == Len(str) > 0 /\ MatchEnd(str, 1, T_date, "notBrace") = Len(str)

(***************************************************************************)
(* lib/processor.js                                                        *)
(***************************************************************************)
\* a \s* that matches no white space at all
SkipSpaces_none(s, k) == k

RECURSIVE SkipSpaces(_, _)
\* \s*: the first position from k on that holds no white space
SkipSpaces(s, k) == IF k <= Len(s) /\ IsSpace(s[k]) THEN SkipSpaces(s, k + 1) ELSE k

\* cleanExpression.match(/^currentDate\s*([\+\-])\s*(\d+)$/)
DateMatch(clean) ==
  LET signAt == SkipSpaces(clean, Len(T_currentDate) + 1)
      valueAt == SkipSpaces(clean, signAt + 1)
      ok == /\ startsWith(clean, T_currentDate)
            /\ signAt <= Len(clean)
            /\ clean[signAt] \in {"+", "-"}
            /\ valueAt <= Len(clean)
            /\ \A i \in valueAt..Len(clean) : IsDigit(clean[i])
  IN IF ok THEN [ok |-> TRUE, operation |-> clean[signAt],
                 valueStr |-> SubSeq(clean, valueAt, Len(clean))]
     ELSE [ok |-> FALSE, operation |-> "", valueStr |-> <<>>]

\* a processDateExpression that always counts in seconds
processDateExpression_secondsOnly(expression, clock) ==
  LET match == DateMatch(removeFirst(expression, T_ms))
      currentTimestamp == clock \div 1000
  IN IF ~match.ok
     THEN IF trim(removeFirst(expression, T_ms)) = T_currentDate
          THEN Num(currentTimestamp) ELSE Null
     ELSE IF match.operation = "+" THEN Num(currentTimestamp + parseInt(match.valueStr))
     ELSE Num(currentTimestamp - parseInt(match.valueStr))

\* MockApiResponseProcessor.processDateExpression(expression) with Date.now() = clock:
\* a number, or null
processDateExpression(expression, clock) ==
  LET hasMillisecondsFlag == includes(expression, T_ms)
      cleanExpression == removeFirst(expression, T_ms)
      match == DateMatch(cleanExpression)
      currentTimestamp == IF hasMillisecondsFlag THEN clock ELSE clock \div 1000
  IN IF ~match.ok
     THEN IF trim(cleanExpression) = T_currentDate THEN Num(currentTimestamp) ELSE Null
     ELSE IF match.operation = "+" THEN Num(currentTimestamp + parseInt(match.valueStr))
     ELSE Num(currentTimestamp - parseInt(match.valueStr))

\* the text a global replace produces from the pieces and the replacement of each match
Replaced(pieces, Repl(_)) ==
  Flatten([i \in DOMAIN pieces |-> IF pieces[i].m THEN Repl(pieces[i]) ELSE pieces[i].text])

\* str.replace(/\{date:([^}]+)\}/g, ...)
replaceDates(str, clock) ==
  Replaced(Pieces(str, 1, 1, T_date, "notBrace"),
           LAMBDA p : IF processDateExpression(p.cap, clock) # Null
                      THEN numberToString(processDateExpression(p.cap, clock).n)
                      ELSE p.text)

\* result.replace(/\{params\.([^}]+)\}/g, ...) and result.replace(/\{query\.([^}]+)\}/g, ...):
\* the callback returns obj[name], which replace converts to a string
replaceNamed(str, prefix, obj) ==
  Replaced(Pieces(str, 1, 1, prefix, "notBrace"),
           LAMBDA p : IF Get(obj, p.cap) # Undef THEN StringOf(Get(obj, p.cap)) ELSE p.text)

RECURSIVE Navigate(_, _, _)
\* the for loop over the parts of a body path: found = FALSE when it returns the
\* match early
Navigate(current, parts, i) ==
  IF i > Len(parts) THEN [found |-> TRUE, v |-> current]
  ELSE IF current.t \in {"undefined", "null"} THEN [found |-> FALSE, v |-> Undef]
  ELSE Navigate(Get(current, parts[i]), parts, i + 1)

\* the callback of the body replace: the JSON text of the value, or the match
BodyReplacement(p, body) ==
  LET nav == Navigate(body, split(p.cap, "."), 1) IN
  IF ~nav.found THEN p.text
  ELSE IF nav.v # Undef THEN StringOf(JSONstringify(nav.v))
  ELSE p.text

\* result.replace(/\{body\.([\w.]+)\}/g, ...)
replaceBody(str, body) ==
  Replaced(Pieces(str, 1, 1, T_body, "wordDot"), LAMBDA p : BodyReplacement(p, body))

\* an interpolateString without the early return for a pure date placeholder
InterpolateStages_noPure(str, ctx, clock) ==
  LET afterDate == replaceDates(str, clock)
      afterParams == replaceNamed(afterDate, T_params, ctx.pathParams)
      afterQuery == replaceNamed(afterParams, T_query, ctx.queryParams)
  IN [afterDate |-> afterDate, afterParams |-> afterParams, afterQuery |-> afterQuery,
      value |-> Str(replaceBody(afterQuery, ctx.body))]

\* MockApiResponseProcessor.interpolateString(str, {pathParams, queryParams, body})
\* with Date.now() = clock: the value returned, and the value of result after each
\* of the first three replaces
InterpolateStages(str, ctx, clock) ==
  LET pure == IF IsPureDate(str)
              THEN processDateExpression(SubSeq(str, Len(T_date) + 1, Len(str) - 1), clock)
              ELSE Null
      afterDate == replaceDates(str, clock)
      afterParams == replaceNamed(afterDate, T_params, ctx.pathParams)
      afterQuery == replaceNamed(afterParams, T_query, ctx.queryParams)
      afterBody == replaceBody(afterQuery, ctx.body)
  IN IF pure # Null
     THEN \* returned before result is first assigned
          [afterDate |-> str, afterParams |-> str, afterQuery |-> str, value |-> pure]
     ELSE [afterDate |-> afterDate, afterParams |-> afterParams, afterQuery |-> afterQuery,
           value |-> Str(afterBody)]

\* the value interpolateString returns
interpolateString(str, ctx, clock) == InterpolateStages(str, ctx, clock).value

RECURSIVE processObject(_, _, _)
\* MockApiResponseProcessor.processObject(obj, params) with Date.now() = clock
processObject(obj, ctx, clock) ==
  CASE obj.t \in {"null", "undefined"} -> obj
    [] obj.t = "string" -> interpolateString(obj.s, ctx, clock)
    [] obj.t = "array" -> Arr([i \in DOMAIN obj.e |-> processObject(obj.e[i], ctx, clock)])
    [] obj.t = "object" ->
         LET Build[i \in 0..Len(obj.e)] ==
               IF i = 0 THEN Obj(<<>>)
               ELSE SetProp(Build[i - 1],
                            StringOf(interpolateString(obj.e[i].k, ctx, clock)),
                            processObject(obj.e[i].v, ctx, clock))
         IN Build[Len(obj.e)]
    [] OTHER -> obj

\* MockApiResponseProcessor.processResponse(responseTemplate, params) with
\* Date.now() = clock. JSON.stringify(undefined) is undefined, which JSON.parse
\* rejects with a SyntaxError
processResponse(responseTemplate, ctx, clock) ==
  IF Unserializable(responseTemplate) THEN [threw |-> TRUE, value |-> Undef]
  ELSE [threw |-> FALSE, value |-> processObject(JsonClone(responseTemplate), ctx, clock)]

(***************************************************************************)
(* index.js                                                                *)
(***************************************************************************)
K_routes == <<"r", "o", "u", "t", "e", "s">>
K_response == <<"r", "e", "s", "p", "o", "n", "s", "e">>
K_statusCode == <<"s", "t", "a", "t", "u", "s", "C", "o", "d", "e">>
K_headers == <<"h", "e", "a", "d", "e", "r", "s">>
K_delay == <<"d", "e", "l", "a", "y">>
K_error == <<"e", "r", "r", "o", "r">>
K_requestedPath == <<"r", "e", "q", "u", "e", "s", "t", "e", "d", "P", "a", "t", "h">>
K_requestedMethod == <<"r", "e", "q", "u", "e", "s", "t", "e", "d", "M", "e", "t", "h", "o", "d">>
T_notFound == <<"M", "o", "c", "k", " ", "A", "P", "I", " ", "e", "n", "d", "p", "o", "i", "n", "t", " ", "n", "o", "t", " ", "f", "o", "u", "n", "d">>

\* what handleRequest throws
Rejected ==
  [threw |-> TRUE, statusCode |-> Undef, headers |-> Undef, body |-> Undef, delay |-> Undef]

\* the result for a request no route matches
NotFound(path, method) ==
  [threw |-> FALSE, statusCode |-> Num(404), headers |-> Undef, delay |-> Undef,
   body |-> Obj(<<KV(K_error, Str(T_notFound)), KV(K_requestedPath, path),
                  KV(K_requestedMethod, method)>>)]

\* ServerlessApiMockery.handleRequest(req) from the document data that
\* getApiData resolved to, with Date.now() = clock
handleRequest(data, req, clock) ==
  IF req.method.t # "string" THEN Rejected    \* req.method.toLowerCase
  ELSE LET method == Str(toLowerCase(req.method.s))
           path == req.path
           found == findMatchingRoute(Get(data, K_routes), method, path)
       IN IF found.threw THEN Rejected
          ELSE IF ~Truthy(found.route) THEN NotFound(path, method)
          ELSE LET responseData ==
                     processResponse(Get(found.route, K_response),
                                     [pathParams |-> found.pathParams,
                                      queryParams |-> req.query,
                                      body |-> req.body],
                                     clock)
               IN IF responseData.threw THEN Rejected
                  ELSE [threw |-> FALSE,
                        statusCode |-> IF Truthy(Get(found.route, K_statusCode))
                                       THEN Get(found.route, K_statusCode) ELSE Num(200),
                        headers |-> IF Truthy(Get(found.route, K_headers))
                                    THEN Get(found.route, K_headers) ELSE Obj(<<>>),
                        body |-> responseData.value,
                        delay |-> Get(found.route, K_delay)]

(***************************************************************************)
(* The inputs the model draws from.                                        *)
(***************************************************************************)
SeqsUpTo(S, n) == UNION {[1..k -> S] : k \in 0..n}

RECURSIVE JoinSegs(_)
\* the segments joined with "/"
JoinSegs(segs) ==
  IF segs = <<>> THEN <<>>
  ELSE IF Len(segs) = 1 THEN segs[1]
  ELSE segs[1] \o <<"/">> \o JoinSegs(Tail(segs))

\* a path with or without a leading and a trailing slash
PathOf(segs, lead, trail) ==
  (IF lead THEN <<"/">> ELSE <<>>) \o JoinSegs(segs) \o (IF trail THEN <<"/">> ELSE <<>>)

S_get == <<"g", "e", "t">>
S_GET == <<"G", "E", "T">>
S_Get == <<"G", "e", "t">>
S_post == <<"p", "o", "s", "t">>
P_a_x == <<"/", "a", "/", ":", "x">>
P_a_b == <<"/", "a", "/", "b">>
P_a_1 == <<"/", "a", "/", "1">>
P_x_x == <<"/", ":", "x", "/", ":", "x">>
P_a_b_slash == <<"a", "/", "b", "/">>
P_root == <<"/">>
P_b == <<"/", "b">>

\* a route definition {method, path}
Route(method, path) == Obj(<<KV(K_method, method), KV(K_path, path)>>)

\* the entries a routes array may hold: definitions, and the malformed entries the
\* router meets in a stored document
RouteEntries ==
  { Route(Str(m), Str(p)) : m \in {S_get, S_GET, S_post}, p \in {P_a_x, P_a_b} }
  \cup { Route(Str(S_get), Str(P_x_x)), Route(Str(S_get), Str(P_root)),
         Null, Str(S_get), Arr(<<>>), Obj(<<>>),
         Obj(<<KV(K_path, Str(P_a_b))>>), Obj(<<KV(K_method, Str(S_get))>>),
         Route(Str(<<>>), Str(P_a_b)), Route(Str(S_get), Str(<<>>)),
         Route(Num(1), Str(P_a_b)), Route(Str(S_get), Num(1)) }

\* the values of the routes argument
RoutesArgs ==
  { Arr(l) : l \in SeqsUpTo(RouteEntries, MaxRoutes) }
  \cup { Undef, Null, Obj(<<>>), Str(S_get) }

\* the values of the method argument
MethodArgs == { Str(S_get), Str(S_GET), Str(S_Get), Str(S_post), Undef }

\* the values of the path argument
PathArgs ==
  { Str(p) : p \in {P_a_b, P_a_1, P_a_b_slash, P_root, P_b, <<>>} } \cup { Undef, Num(1) }

\* the segments of request paths and of route patterns, for matchPathWithParams
RequestSegs == { <<"a">>, <<"b">> }
PatternSegs == { <<"a">>, <<":", "x">>, <<":", "y">>, <<":">> \o K_proto }
RequestPaths ==
  { PathOf(segs, lead, trail) :
      segs \in SeqsUpTo(RequestSegs, MaxSegs), lead \in BOOLEAN, trail \in BOOLEAN }
PatternPaths ==
  { PathOf(segs, lead, trail) :
      segs \in SeqsUpTo(PatternSegs, MaxSegs), lead \in BOOLEAN, trail \in BOOLEAN }

N_id == <<"i", "d">>
N_q == <<"q">>
N_zz == <<"z", "z">>
N_user == <<"u", "s", "e", "r">>
N_n == <<"n">>
N_ts == <<"t", "s">>
V_7 == <<"7">>
V_Ann == <<"A", "n", "n">>
E_plus5 == T_currentDate \o <<"+", "5">>
E_minus5 == T_currentDate \o <<"-", "5">>
E_ms == T_currentDate \o T_ms
E_msPlus5 == T_currentDate \o T_ms \o <<"+", "5">>
E_msMinus5 == T_currentDate \o T_ms \o <<"-", "5">>
E_bad == <<"b", "a", "d">>

\* the placeholder texts
PH(prefix, name) == prefix \o name \o <<"}">>
PH_body_user_name == T_body \o N_user \o <<".">> \o K_name \o <<"}">>
PH_body_name_length == T_body \o K_name \o <<".">> \o K_length \o <<"}">>
PH_body_n_zz == T_body \o N_n \o <<".">> \o N_zz \o <<"}">>
PH_body_user_zz == T_body \o N_user \o <<".">> \o N_zz \o <<"}">>
PH_body_zz_name == T_body \o N_zz \o <<".">> \o K_name \o <<"}">>

\* the date expressions of the documented grammar that the model's templates use
DateExprs == { T_currentDate, E_plus5, E_minus5, E_ms, E_msPlus5, E_msMinus5 }

\* the expressions handed to processDateExpression: currentDate, the (ms) marker or
\* none, white space or none on either side of the sign, and the digits of N
Spaces == { <<>>, <<" ">>, <<" ", "\t">> }
OffsetDigits == { <<"5">>, <<"6", "0">> }
DateExpr(ms, before, sign, after, digits) ==
  T_currentDate \o (IF ms THEN T_ms ELSE <<>>) \o before \o <<sign>> \o after \o digits
DateExprArgs ==
  { DateExpr(ms, before, sign, after, digits) :
      ms \in BOOLEAN, before \in Spaces, sign \in {"+", "-"}, after \in Spaces,
      digits \in OffsetDigits }
  \cup { T_currentDate, E_ms, E_bad, <<" ">> \o T_currentDate, T_currentDate \o <<"+">>,
         T_currentDate \o <<"+", "5">> \o T_ms,
         T_currentDate \o <<" ">>, <<" ">> \o E_plus5, E_plus5 \o <<" ">>,
         T_currentDate \o <<"+", "a", "b", "c">>, T_currentDate \o <<"*", "6", "0">>,
         T_currentDate \o <<"+", "-", "5">>, T_currentDate \o <<"5">>, <<>>, T_ms }

\* the pieces template strings are put together from: placeholders that resolve,
\* placeholders that do not, and literal text
TemplatePieces ==
  { PH(T_params, N_id), PH(T_params, N_zz), PH(T_params, K_constructor),
    PH(T_query, N_q),
    PH(T_body, K_name), PH(T_body, N_user), PH(T_body, N_zz),
    PH(T_date, T_currentDate), PH(T_date, E_bad),
    <<"U">> }

\* the strings handed to interpolateString
TemplateStrings ==
  { Flatten(ps) : ps \in SeqsUpTo(TemplatePieces, MaxPieces) }
  \cup { PH(T_date, e) : e \in DateExprs }
  \cup { PH(T_query, N_zz), PH(T_body, N_n), PH_body_user_name,
         PH_body_name_length, PH_body_n_zz, PH_body_user_zz, PH_body_zz_name,
         T_params \o PH(T_query, N_q) \o <<"}">> }

\* the request contexts: pathParams as the router binds them, queryParams as the
\* adapter parsed them, body as the adapter decoded it (undefined without one)
PathParamsSet == { Obj(<<>>), Obj(<<KV(N_id, Str(V_7))>>) }
QueryParamsSet ==
  { Obj(<<>>), Obj(<<KV(N_q, Str(V_Ann))>>), Obj(<<KV(N_q, Str(PH(T_params, N_id)))>>),
    Obj(<<KV(N_q, Str(PH(T_body, K_name)))>>) }
FullBody ==
  Obj(<<KV(K_name, Str(V_Ann)), KV(N_user, Obj(<<KV(K_name, Str(V_Ann))>>)),
        KV(N_n, Num(5))>>)
BodySet == { Undef, Obj(<<>>), FullBody }
Contexts ==
  { [pathParams |-> pp, queryParams |-> qp, body |-> b] :
      pp \in PathParamsSet, qp \in QueryParamsSet, b \in BodySet }

\* the response templates handed to processResponse: leaves, arrays of leaves and
\* objects of leaves, among them the template of the spec's example
TemplateLeaves ==
  { Str(p) : p \in { PH(T_params, N_id), PH(T_query, N_q), PH(T_body, K_name),
                     PH(T_date, T_currentDate), PH(T_date, E_ms),
                     <<"U">> \o PH(T_date, T_currentDate) } }
  \cup { Num(1), Bool(TRUE), Null }
TemplateKeys == { N_id, PH(T_params, N_id), PH(T_date, T_currentDate) }
Templates ==
  TemplateLeaves
  \cup { Undef }
  \cup { Arr(l) : l \in SeqsUpTo(TemplateLeaves, 2) }
  \cup { Obj(<<KV(k, v)>>) : k \in TemplateKeys, v \in TemplateLeaves }
  \cup { Obj(<<KV(N_id, a), KV(N_ts, b)>>) : a \in TemplateLeaves, b \in TemplateLeaves }

\* the stored documents handleRequest finds routes in, and the requests
P_auth_id == <<"/", "a", "u", "t", "h", "/", ":", "i", "d">>
P_auth_7 == <<"/", "a", "u", "t", "h", "/", "7">>
S_POST == <<"P", "O", "S", "T">>
N_issuedAt == <<"i", "s", "s", "u", "e", "d", "A", "t">>
N_expiresAt == <<"e", "x", "p", "i", "r", "e", "s", "A", "t">>
N_past == <<"p", "a", "s", "t">>
N_issuedAtMs == <<"i", "s", "s", "u", "e", "d", "A", "t", "M", "s">>
N_expiresAtMs == <<"e", "x", "p", "i", "r", "e", "s", "A", "t", "M", "s">>
N_text == <<"t", "e", "x", "t">>
TokenResponse ==
  Obj(<<KV(N_id, Str(PH(T_params, N_id))),
        KV(N_issuedAt, Str(PH(T_date, T_currentDate))),
        KV(N_expiresAt, Str(PH(T_date, E_plus5))),
        KV(N_past, Str(PH(T_date, E_minus5))),
        KV(N_issuedAtMs, Str(PH(T_date, E_ms))),
        KV(N_expiresAtMs, Str(PH(T_date, E_msPlus5))),
        KV(N_text, Str(<<"U">> \o PH(T_date, T_currentDate)))>>)
TokenRoute ==
  Obj(<<KV(K_method, Str(S_POST)), KV(K_path, Str(P_auth_id)), KV(K_response, TokenResponse)>>)
PlainRoute ==
  Obj(<<KV(K_method, Str(S_get)), KV(K_path, Str(P_a_b)), KV(K_statusCode, Num(201)),
        KV(K_headers, Obj(<<KV(N_q, Str(V_Ann))>>)), KV(K_delay, Num(5)),
        KV(K_response, Obj(<<KV(K_name, Str(PH(T_body, K_name)))>>))>>)
Documents ==
  { Obj(<<KV(K_routes, Arr(l))>>) :
      l \in SeqsUpTo({TokenRoute, PlainRoute, Route(Str(S_get), Str(P_a_x))}, 2) }
Requests ==
  { [method |-> Str(m), path |-> Str(p), query |-> qp, body |-> b] :
      m \in {S_POST, S_post, S_get}, p \in {P_auth_7, P_a_b, P_b},
      qp \in {Obj(<<>>), Obj(<<KV(N_q, Str(V_Ann))>>)}, b \in {Undef, FullBody} }

(***************************************************************************)
(* The state machine: a caller invokes one operation at a time; its        *)
(* arguments and its result are held until the caller takes the result.    *)
(***************************************************************************)
NoArgs == [none |-> TRUE]

(***************************************************************************)
(* The instance and its callers (index.js, lib/storage.js).  An async       *)
(* function runs up to its next await in one step; the steps of different  *)
(* callers interleave at the awaits.                                       *)
(***************************************************************************)
Callers == {1, 2}

K_mockData == <<"m", "o", "c", "k", "D", "a", "t", "a">>
K_message == <<"m", "e", "s", "s", "a", "g", "e">>
P_mock_data == <<"/", "m", "o", "c", "k", "-", "d", "a", "t", "a">>
T_serverError == <<"S", "e", "r", "v", "e", "r", " ", "e", "r", "r", "o", "r">>
T_updateFailed == <<"F", "a", "i", "l", "e", "d", " ", "t", "o", " ", "u", "p", "d", "a", "t", "e", " ", "m", "o", "c", "k", " ", "d", "a", "t", "a">>
T_updated == <<"M", "o", "c", "k", " ", "d", "a", "t", "a", " ", "u", "p", "d", "a", "t", "e", "d", " ", "s", "u", "c", "c", "e", "s", "s", "f", "u", "l", "l", "y">>
T_backendError == <<"b", "a", "c", "k", "e", "n", "d", " ", "e", "r", "r", "o", "r">>

\* { routes: [], mockData: {} }: what MemoryAdapter starts with, and what
\* getApiData returns when the backend read fails
EmptyDoc == Obj(<<KV(K_routes, Arr(<<>>)), KV(K_mockData, Obj(<<>>))>>)

\* the routes of the stored documents
IdRoute ==
  Obj(<<KV(K_method, Str(S_GET)), KV(K_path, Str(P_a_x)),
        KV(K_response, Obj(<<KV(N_id, Str(PH(T_params, <<"x">>)))>>))>>)
DelayedRoute ==
  Obj(<<KV(K_method, Str(S_get)), KV(K_path, Str(P_b)), KV(K_statusCode, Num(201)),
        KV(K_headers, Obj(<<KV(N_q, Str(V_Ann))>>)), KV(K_delay, Num(RouteDelay)),
        KV(K_response, Obj(<<KV(K_name, Str(V_Ann))>>))>>)
BadHeaderRoute ==
  Obj(<<KV(K_method, Str(S_get)), KV(K_path, Str(P_b)),
        KV(K_headers, Obj(<<KV(N_q, Str(<<"\n">>))>>)),
        KV(K_response, Obj(<<KV(K_name, Str(V_Ann))>>))>>)
BadMethodRoute ==
  Obj(<<KV(K_method, Num(1)), KV(K_path, Str(P_a_b)), KV(K_response, Obj(<<>>))>>)

\* the documents saved through saveApiData
DocA == Obj(<<KV(K_routes, Arr(<<IdRoute, DelayedRoute>>)), KV(K_mockData, Obj(<<>>))>>)
DocB ==
  Obj(<<KV(K_routes, Arr(<<BadHeaderRoute, BadMethodRoute, IdRoute>>)),
        KV(K_mockData, Obj(<<>>))>>)
SavedDocs == { DocA, DocB }

\* the requests the middleware is called with
Req(method, path) ==
  [method |-> Str(method), path |-> Str(path), query |-> Obj(<<>>), body |-> Undef]
MiddlewareRequests ==
  { Req(S_GET, P_a_b), Req(S_GET, P_a_1), Req(S_GET, P_b), Req(S_POST, P_b),
    Req(S_GET, P_mock_data) }

\* what the middleware has done with res: the status set (0 for none), the
\* headers set, the body sent, when the response was rendered and when it was sent
NoOut ==
  [next |-> FALSE, status |-> 0, headers |-> Undef, body |-> Undef, sent |-> FALSE,
   renderedAt |-> 0, due |-> 0, sentAt |-> 0, stages |-> <<>>]

\* no call completed yet. t is the Date.now() the call read (getApiData at its
\* start, saveApiData after the write), res what it returned, threw or sent
NoLast == [op |-> "none", t |-> 0, io |-> "none", threw |-> FALSE, res |-> Undef]

\* a caller with no call in flight
Idle ==
  [op |-> "none", pc |-> "idle", t |-> 0, arg |-> Undef, io |-> "none", threw |-> FALSE,
   res |-> Undef, data |-> Undef, handled |-> Rejected, over |-> FALSE, out |-> NoOut,
   seen |-> {}]

\* the cache after construction
NewCache == [data |-> Null, timestamp |-> 0, ttl |-> CacheTtl]

\* the objects of the heap: object 1 is the document MemoryAdapter's constructor
\* creates, the others are created by the adapter's caller
Refs == 1..(MaxObjects + 1)

\* new MemoryAdapter() and a new instance that uses it: data is this.data of the
\* adapter and cached is cache.data of the instance, both references (0 for null);
\* d is the caller's object, savedRef and saved the argument of the last save and
\* its contents at that time, got what the last read returned
NewMem ==
  [heap |-> [r \in Refs |-> IF r = 1 THEN EmptyDoc ELSE Undef],
   data |-> 1, cached |-> 0, d |-> 0, savedRef |-> 0, saved |-> Undef, got |-> 0]

Init ==
  /\ now = ClockStart
  /\ pc = "idle"
  /\ args = NoArgs
  /\ ret = NoArgs
  /\ cache = NewCache
  /\ storage = EmptyDoc
  /\ procs = [p \in Callers |-> Idle]
  /\ last = NoLast
  /\ mem = NewMem

\* a call of router.findMatchingRoute(routes, method, path)
FindMatchingRoute ==
  /\ pc = "idle"
  /\ \E routes \in RoutesArgs, method \in MethodArgs, path \in PathArgs :
       /\ args' = [routes |-> routes, method |-> method, path |-> path]
       /\ ret' = findMatchingRoute(routes, method, path)
  /\ pc' = "findMatchingRoute"
  /\ UNCHANGED <<now, engine>>

\* a call of router.matchPathWithParams(requestPath, routePath)
MatchPathWithParams ==
  /\ pc = "idle"
  /\ \E requestPath \in RequestPaths, routePath \in PatternPaths :
       /\ args' = [requestPath |-> Str(requestPath), routePath |-> Str(routePath)]
       /\ ret' = matchPathWithParams(Str(requestPath), Str(routePath))
  /\ pc' = "matchPathWithParams"
  /\ UNCHANGED <<now, engine>>

\* the caller takes the result (or catches the exception)
Return ==
  /\ pc # "idle"
  /\ pc' = "idle"
  /\ args' = NoArgs
  /\ ret' = NoArgs
  /\ UNCHANGED <<now, engine>>

\* the wall clock advances
Tick ==
  /\ pc = "idle"
  /\ now < ClockStart + MaxTicks
  /\ now' = now + 1
  /\ UNCHANGED <<pc, args, ret, engine>>

\* a call of processor.processDateExpression(expression)
ProcessDateExpression ==
  /\ pc = "idle"
  /\ \E expression \in DateExprArgs :
       /\ args' = [expression |-> expression]
       /\ ret' = processDateExpression(expression, now)
  /\ pc' = "processDateExpression"
  /\ UNCHANGED <<now, engine>>

\* a call of processor.interpolateString(str, {pathParams, queryParams, body})
InterpolateString ==
  /\ pc = "idle"
  /\ \E str \in TemplateStrings, ctx \in Contexts :
       /\ args' = [str |-> str, ctx |-> ctx]
       /\ ret' = InterpolateStages(str, ctx, now)
  /\ pc' = "interpolateString"
  /\ UNCHANGED <<now, engine>>

\* a call of processor.processResponse(responseTemplate, {pathParams, queryParams, body})
ProcessResponse ==
  /\ pc = "idle"
  /\ \E template \in Templates, ctx \in Contexts :
       /\ args' = [template |-> template, ctx |-> ctx]
       /\ ret' = processResponse(template, ctx, now)
  /\ pc' = "processResponse"
  /\ UNCHANGED <<now, engine>>

\* the caller hands the rendered value to processResponse again, with the same
\* context: ret holds both renderings
ProcessResponseAgain ==
  /\ pc = "processResponse"
  /\ ~ret.threw
  /\ ret' = [threw |-> processResponse(ret.value, args.ctx, now).threw,
             first |-> ret.value,
             second |-> processResponse(ret.value, args.ctx, now).value]
  /\ pc' = "processResponseAgain"
  /\ UNCHANGED <<now, args, engine>>

\* a call of handleRequest(req), from the point where getApiData has resolved to
\* the document data
HandleRequest ==
  /\ pc = "idle"
  /\ \E data \in Documents, req \in Requests :
       /\ args' = [data |-> data, req |-> req]
       /\ ret' = handleRequest(data, req, now)
  /\ pc' = "handleRequest"
  /\ UNCHANGED <<now, engine>>

(***************************************************************************)
(* index.js: the cache, the storage backend and the Express middleware.    *)
(***************************************************************************)
\* a validity test that still accepts a cache of exactly ttl milliseconds
CacheValid_inclusive(c, clock) == Truthy(c.data) /\ clock - c.timestamp <= c.ttl

\* this.cache.data && (now - this.cache.timestamp < this.cache.ttl)
CacheValid(c, clock) == Truthy(c.data) /\ clock - c.timestamp < c.ttl

\* a getApiData that does not store what it read
FetchedCache_none(c, data, t) == c

\* this.cache.data = data; this.cache.timestamp = now (the now of the call's start)
FetchedCache(c, data, t) == [c EXCEPT !.data = data, !.timestamp = t]

\* a catch block of getApiData that throws the error again
FetchFailed_rethrow == [threw |-> TRUE, v |-> Str(T_backendError)]

\* the catch block of getApiData: the empty document is returned
FetchFailed == [threw |-> FALSE, v |-> EmptyDoc]

\* a saveApiData that leaves the cache's timestamp as it was
SavedCache_dataOnly(c, updatedData, clock) == [c EXCEPT !.data = updatedData]

\* this.cache.data = updatedData; this.cache.timestamp = Date.now()
SavedCache(c, updatedData, clock) == [c EXCEPT !.data = updatedData, !.timestamp = clock]

\* a catch block of saveApiData that swallows the error and returns false
SaveFailed_swallow(error) == [threw |-> FALSE, v |-> Bool(FALSE)]

\* the catch block of saveApiData: throw error
SaveFailed(error) == [threw |-> TRUE, v |-> error]

\* isNaN(response.delay)
IsNaN(v) ==
  CASE v.t \in {"number", "boolean", "null"} -> FALSE
    [] v.t = "string" -> \E i \in DOMAIN v.s : ~IsDigit(v.s[i])
    [] OTHER -> TRUE

\* response.delay && !isNaN(response.delay)
HasDelay(delay) == Truthy(delay) /\ ~IsNaN(delay)

\* a timer that is due at once
Due_now(clock, delay) == clock

\* when the timer of setTimeout(resolve, parseInt(response.delay)) is due
Due(clock, delay) ==
  clock + (IF delay.t = "number" THEN delay.n
           ELSE IF delay.t = "string" THEN parseInt(delay.s) ELSE 0)

\* res.setHeader(key, value) throws for a value with a character that is not
\* allowed in a header
HeaderRejected(headers) ==
  /\ Truthy(headers)
  /\ headers.t = "object"
  /\ \E i \in DOMAIN headers.e :
       headers.e[i].v.t = "string" /\ \E j \in DOMAIN headers.e[i].v.s :
                                         headers.e[i].v.s[j] = "\n"

\* a catch block of the middleware that answers nothing
Caught_silent(o, clock) == o

\* a catch block that answers 500 and hands the error to next() as well
Caught_andNext(o, clock) ==
  [o EXCEPT !.status = Num(500), !.body = Obj(<<KV(K_error, Str(T_serverError))>>),
            !.sent = TRUE, !.sentAt = clock, !.next = TRUE,
            !.stages = @ \o <<"send", "next">>]

\* the catch block of the middleware: res.status(500).json({ error: "Server error" })
Caught(o, clock) ==
  [o EXCEPT !.status = Num(500), !.body = Obj(<<KV(K_error, Str(T_serverError))>>),
            !.sent = TRUE, !.sentAt = clock, !.stages = @ \o <<"send">>]

\* a processResponse that interpolates the template object itself
templateAfter_inPlace(responseTemplate, ctx, clock) ==
  processResponse(responseTemplate, ctx, clock).value

\* the template object after processResponse(responseTemplate, ...): the function
\* works on the copy JSON.parse(JSON.stringify(...)) made and builds new objects
templateAfter(responseTemplate, ctx, clock) == responseTemplate

\* the document data after handleRequest(req): the route objects are those of
\* the document, route.response is the object handed to processResponse
dataAfter(data, req, clock) ==
  LET routes == Get(data, K_routes)
      found == findMatchingRoute(routes, Str(toLowerCase(req.method.s)), req.path)
  IN IF found.threw \/ ~Truthy(found.route) \/ ~HasOwn(found.route, K_response)
     THEN data
     ELSE LET after == templateAfter(Get(found.route, K_response),
                                     [pathParams |-> found.pathParams,
                                      queryParams |-> req.query, body |-> req.body],
                                     clock)
              route == SetProp(found.route, K_response, after)
          IN SetProp(data, K_routes, Arr([routes.e EXCEPT ![found.index] = route]))

\* the first step of getApiData for caller p, called directly (op = "getApiData")
\* or from handleRequest (op = "middleware"): a valid cache is returned, otherwise
\* storage.getData() is awaited. over records that another call is awaiting its
\* read at the same time
StartFetch(p, op, arg) ==
  LET hit == CacheValid(cache, now)
      racing == { q \in Callers \ {p} : procs[q].pc = "awaitRead" }
      me == [Idle EXCEPT !.op = op, !.arg = arg, !.t = now]
  IN procs' = [q \in Callers |->
       IF q = p
       THEN IF hit
            THEN IF op = "getApiData"
                 THEN [me EXCEPT !.pc = "done", !.data = cache.data, !.res = cache.data]
                 ELSE [me EXCEPT !.pc = "gotData", !.data = cache.data]
            ELSE [me EXCEPT !.pc = "awaitRead", !.over = (racing # {}),
                            !.seen = {storage}]
       ELSE IF ~hit /\ q \in racing THEN [procs[q] EXCEPT !.over = TRUE] ELSE procs[q]]

\* caller p after its storage.getData() settled with outcome r
AfterFetch(me, r, io) ==
  IF me.op = "getApiData"
  THEN [me EXCEPT !.pc = "done", !.io = io, !.threw = r.threw, !.data = r.v, !.res = r.v]
  ELSE [me EXCEPT !.pc = "gotData", !.io = io, !.threw = r.threw, !.data = r.v]

\* a call of getApiData()
GetApiData(p) ==
  /\ procs[p].pc = "idle"
  /\ StartFetch(p, "getApiData", Undef)
  /\ UNCHANGED <<mem, now, pc, args, ret, cache, storage, last>>

\* a request enters the middleware: /mock-data is passed on with next(), any
\* other request goes to handleRequest, which awaits getApiData()
Middleware(p) ==
  /\ procs[p].pc = "idle"
  /\ \E req \in MiddlewareRequests :
       IF req.path = Str(P_mock_data)
       THEN procs' = [procs EXCEPT ![p] =
                        [Idle EXCEPT !.op = "middleware", !.arg = req,
                           !.t = now, !.pc = "done",
                           !.out = [NoOut EXCEPT !.next = TRUE,
                                                 !.stages = <<"next">>]]]
       ELSE StartFetch(p, "middleware", req)
  /\ UNCHANGED <<mem, now, pc, args, ret, cache, storage, last>>

\* storage.getData() resolves with a document the backend held while the read
\* was in flight (seen): the read is served at some moment between the request
\* and the resumption of getApiData
ReadOk(p) ==
  /\ procs[p].pc = "awaitRead"
  /\ \E data \in procs[p].seen :
       /\ cache' = FetchedCache(cache, data, procs[p].t)
       /\ procs' = [procs EXCEPT ![p] = AfterFetch(@, [threw |-> FALSE, v |-> data], "ok")]
  /\ UNCHANGED <<mem, now, pc, args, ret, storage, last>>

\* a catch block of getApiData that caches the fallback document it returns
ReadFail_caching(p) ==
  /\ procs[p].pc = "awaitRead"
  /\ cache' = FetchedCache(cache, FetchFailed.v, procs[p].t)
  /\ procs' = [procs EXCEPT ![p] = AfterFetch(@, FetchFailed, "failed")]
  /\ UNCHANGED <<mem, now, pc, args, ret, storage, last>>

\* storage.getData() rejects
ReadFail(p) ==
  /\ procs[p].pc = "awaitRead"
  /\ procs' = [procs EXCEPT ![p] = AfterFetch(@, FetchFailed, "failed")]
  /\ UNCHANGED <<mem, now, pc, args, ret, cache, storage, last>>

\* handleRequest goes on with the document: the route is matched and its response
\* rendered; the middleware sets status and headers and sends the body, after the
\* delay when the route has one
Respond(p) ==
  /\ procs[p].pc = "gotData"
  /\ \E h \in { IF procs[p].threw THEN Rejected
                 ELSE handleRequest(procs[p].data, procs[p].arg, now) } :
     LET me == procs[p]
         matched == ~h.threw /\ h.statusCode # Num(404)
         o == [me.out EXCEPT !.renderedAt = now,
                 !.stages = IF h.threw THEN <<"data">>
                            ELSE IF matched THEN <<"data", "match", "render">>
                            ELSE <<"data", "match">>]
         answered == [o EXCEPT !.status = h.statusCode, !.headers = h.headers]
     IN /\ procs' = [procs EXCEPT ![p] =
             IF h.threw \/ HeaderRejected(h.headers)
             THEN [me EXCEPT !.pc = "done", !.handled = h,
                             !.out = Caught(o, now)]
             ELSE IF HasDelay(h.delay)
             THEN [me EXCEPT !.pc = "delay", !.handled = h,
                             !.out = [answered EXCEPT !.due = Due(now, h.delay),
                                                      !.stages = @ \o <<"delay">>]]
             ELSE [me EXCEPT !.pc = "done", !.handled = h,
                             !.out = [answered EXCEPT !.body = h.body, !.sent = TRUE,
                                        !.sentAt = now, !.stages = @ \o <<"send">>]]]
        /\ cache' = IF ~me.threw /\ cache.data = me.data
                    THEN [cache EXCEPT !.data = dataAfter(me.data, me.arg, now)]
                    ELSE cache
  /\ UNCHANGED <<mem, now, pc, args, ret, storage, last>>

\* the timer of the delay fires, no earlier than it is due: res.json(response.body)
SendAfterDelay(p) ==
  /\ procs[p].pc = "delay"
  /\ now >= procs[p].out.due
  /\ procs' = [procs EXCEPT ![p] =
       [@ EXCEPT !.pc = "done",
                 !.out = [@ EXCEPT !.body = procs[p].handled.body, !.sent = TRUE,
                                   !.sentAt = now, !.stages = @ \o <<"send">>]]]
  /\ UNCHANGED <<mem, now, pc, args, ret, cache, storage, last>>

\* a call of saveApiData(updatedData): storage.saveData(updatedData) is awaited
SaveApiData(p) ==
  /\ procs[p].pc = "idle"
  /\ \E updatedData \in SavedDocs :
       procs' = [procs EXCEPT ![p] =
                   [Idle EXCEPT !.op = "saveApiData", !.arg = updatedData,
                                               !.pc = "awaitWrite"]]
  /\ UNCHANGED <<mem, now, pc, args, ret, cache, storage, last>>

\* POST /mock-data: the management route awaits saveApiData(req.body)
PostMockData(p) ==
  /\ procs[p].pc = "idle"
  /\ \E body \in SavedDocs :
       procs' = [procs EXCEPT ![p] =
                   [Idle EXCEPT !.op = "postMockData", !.arg = body,
                                               !.pc = "awaitWrite"]]
  /\ UNCHANGED <<mem, now, pc, args, ret, cache, storage, last>>

\* what the management route answers to the outcome r of saveApiData
PostAnswer(me, r) ==
  IF me.op # "postMockData" THEN me.out
  ELSE IF r.threw
  THEN [me.out EXCEPT !.status = Num(500), !.sent = TRUE, !.sentAt = now,
                      !.body = Obj(<<KV(K_error, Str(T_updateFailed))>>)]
  ELSE [me.out EXCEPT !.status = Num(200), !.sent = TRUE, !.sentAt = now,
                      !.body = Obj(<<KV(K_message, Str(T_updated))>>)]

\* storage.saveData(updatedData) resolves: the backend holds the document, the
\* cache is written through and saveApiData returns true
WriteOk(p) ==
  /\ procs[p].pc = "awaitWrite"
  /\ storage' = procs[p].arg
  /\ cache' = SavedCache(cache, procs[p].arg, now)
  /\ procs' = [q \in Callers |->
       IF q = p
       THEN [procs[p] EXCEPT !.pc = "done", !.io = "ok", !.res = Bool(TRUE), !.t = now,
               !.out = PostAnswer(procs[p], [threw |-> FALSE, v |-> Bool(TRUE)])]
       ELSE IF procs[q].pc = "awaitRead"
       THEN [procs[q] EXCEPT !.seen = @ \cup {procs[p].arg}]
       ELSE procs[q]]
  /\ UNCHANGED <<mem, now, pc, args, ret, last>>

\* storage.saveData(updatedData) rejects with the backend's error
WriteFail(p) ==
  /\ procs[p].pc = "awaitWrite"
  /\ LET r == SaveFailed(Str(T_backendError)) IN
     procs' = [procs EXCEPT ![p] =
       [@ EXCEPT !.pc = "done", !.io = "failed", !.threw = r.threw, !.res = r.v,
                 !.out = PostAnswer(procs[p], r)]]
  /\ UNCHANGED <<mem, now, pc, args, ret, cache, storage, last>>

\* the caller has the outcome of its call and is free for the next one
Complete(p) ==
  /\ procs[p].pc = "done"
  /\ last' = [op |-> procs[p].op, t |-> procs[p].t, io |-> procs[p].io,
              threw |-> procs[p].threw,
              res |-> IF procs[p].op \in {"middleware", "postMockData"}
                      THEN procs[p].out.body ELSE procs[p].res]
  /\ procs' = [procs EXCEPT ![p] = Idle]
  /\ UNCHANGED <<mem, now, pc, args, ret, cache, storage>>

\* a millisecond passes
Elapse ==
  /\ now < ClockStart + MaxTime
  /\ now' = now + 1
  /\ UNCHANGED <<pc, args, ret, engine>>

\* one caller: its calls follow one another
NextEngine ==
  \/ Elapse
  \/ GetApiData(1) \/ Middleware(1) \/ SaveApiData(1) \/ PostMockData(1)
  \/ ReadOk(1) \/ ReadFail(1) \/ Respond(1) \/ SendAfterDelay(1)
  \/ WriteOk(1) \/ WriteFail(1) \/ Complete(1)

SpecEngine == Init /\ [][NextEngine]_vars

\* two callers whose getApiData and saveApiData calls overlap
NextRace ==
  \/ Elapse
  \/ \E p \in Callers :
       \/ GetApiData(p) \/ SaveApiData(p)
       \/ ReadOk(p) \/ ReadFail(p) \/ WriteOk(p) \/ WriteFail(p) \/ Complete(p)

SpecRace == Init /\ [][NextRace]_vars

(***************************************************************************)
(* lib/storage.js: MemoryAdapter, with objects held by reference.          *)
(***************************************************************************)
\* MemoryAdapter.saveData(data): this.data = data
MemorySaveData(m, data) == [m EXCEPT !.data = data]

\* MemoryAdapter.getData(): return this.data
MemoryGetData(m) == m.data

\* the caller builds a document object
NewDocument ==
  /\ \E r \in Refs, doc \in SavedDocs :
       /\ mem.heap[r] = Undef
       /\ \A q \in Refs : q < r => mem.heap[q] # Undef
       /\ mem' = [mem EXCEPT !.heap[r] = doc, !.d = r]
  /\ UNCHANGED <<now, pc, args, ret, cache, storage, procs, last>>

\* the caller assigns to the properties of its document object
ChangeDocument ==
  /\ mem.d # 0
  /\ \E doc \in (SavedDocs \cup {EmptyDoc}) \ {mem.heap[mem.d]} :
       mem' = [mem EXCEPT !.heap[mem.d] = doc]
  /\ UNCHANGED <<now, pc, args, ret, cache, storage, procs, last>>

\* await adapter.saveData(d)
AdapterSaveData ==
  /\ mem.d # 0
  /\ mem' = [MemorySaveData(mem, mem.d) EXCEPT
               !.savedRef = mem.d, !.saved = mem.heap[mem.d], !.got = 0]
  /\ UNCHANGED <<now, pc, args, ret, cache, storage, procs, last>>

\* await adapter.getData()
AdapterGetData ==
  /\ mem' = [mem EXCEPT !.got = MemoryGetData(mem)]
  /\ UNCHANGED <<now, pc, args, ret, cache, storage, procs, last>>

\* await instance.saveApiData(d) on an instance that uses the adapter:
\* storage.saveData(updatedData), then cache.data = updatedData
InstanceSaveApiData ==
  /\ mem.d # 0
  /\ mem' = [MemorySaveData(mem, mem.d) EXCEPT
               !.cached = mem.d,
               !.savedRef = mem.d, !.saved = mem.heap[mem.d], !.got = 0]
  /\ UNCHANGED <<now, pc, args, ret, cache, storage, procs, last>>

\* await instance.getApiData(): the cached document, or the one read from the
\* adapter, which is then cached
InstanceGetApiData ==
  /\ mem' = IF mem.cached # 0
            THEN [mem EXCEPT !.got = mem.cached]
            ELSE [mem EXCEPT !.cached = MemoryGetData(mem), !.got = MemoryGetData(mem)]
  /\ UNCHANGED <<now, pc, args, ret, cache, storage, procs, last>>

NextMemory ==
  \/ NewDocument \/ ChangeDocument
  \/ AdapterSaveData \/ AdapterGetData
  \/ InstanceSaveApiData \/ InstanceGetApiData

SpecMemory == Init /\ [][NextMemory]_vars

NextRouter == FindMatchingRoute \/ MatchPathWithParams \/ Return

SpecRouter == Init /\ [][NextRouter]_vars

NextRender ==
  Tick \/ ProcessDateExpression \/ InterpolateString \/ ProcessResponse
       \/ ProcessResponseAgain \/ HandleRequest \/ Return

SpecRender == Init /\ [][NextRender]_vars

Next == NextRouter \/ NextRender \/ NextEngine \/ NextRace \/ NextMemory

Spec == Init /\ [][Next]_vars

(***************************************************************************)
(* Properties of the router.                                               *)
(***************************************************************************)
Min(S) == CHOOSE x \in S : \A y \in S : x <= y
Max(S) == CHOOSE x \in S : \A y \in S : x >= y

\* a route definition with a method and a path present and non-empty
WellFormed(route) ==
  /\ route.t = "object"
  /\ Truthy(Field(route, K_method))
  /\ Truthy(Field(route, K_path))

\* the pattern of route entry r matches the path
PathMatches(r, path) == matchPathWithParams(path, Field(r, K_path)).isMatch

\* entry r is well formed, its method is the (lower-case) method of the request
\* and its pattern matches the path
Eligible(r, method, path) ==
  /\ WellFormed(r)
  /\ Field(r, K_method).t = "string"
  /\ method.t = "string"
  /\ toLowerCase(Field(r, K_method).s) = method.s
  /\ PathMatches(r, path)

\* entry r is well formed, its method equals the request's ignoring letter case
\* on both sides, and its pattern matches the path
EligibleAnyCase(r, method, path) ==
  /\ WellFormed(r)
  /\ Field(r, K_method).t = "string"
  /\ method.t = "string"
  /\ toLowerCase(Field(r, K_method).s) = toLowerCase(method.s)
  /\ PathMatches(r, path)

\* the indices of the eligible entries of the call held in args
EligibleSet ==
  { i \in DOMAIN args.routes.e : Eligible(args.routes.e[i], args.method, args.path) }

\* a call of findMatchingRoute on an array has returned
Returned == pc = "findMatchingRoute" /\ IsArray(args.routes) /\ ~ret.threw

\* the segments of a path
Segments(p) == filterBoolean(split(p, "/"))
IsParamSeg(seg) == seg # <<>> /\ seg[1] = ":"
IsLiteralRoute(r) ==
  /\ Field(r, K_path).t = "string"
  /\ \A i \in DOMAIN Segments(Field(r, K_path).s) : ~IsParamSeg(Segments(Field(r, K_path).s)[i])

ParamPositions == { i \in DOMAIN Segments(args.routePath.s) :
                      IsParamSeg(Segments(args.routePath.s)[i]) }
ParamName(i) == Tail(Segments(args.routePath.s)[i])
ParamKeys == { ret.params.e[i].k : i \in DOMAIN ret.params.e }
Matched == pc = "matchPathWithParams" /\ ret.isMatch

\* C3 (as claimed): on a match, pathParams holds exactly one entry per :name
\* segment, mapping the name to the raw request segment at the same position.
Orig_C3 ==
  Matched =>
    /\ Len(ret.params.e) = Cardinality(ParamPositions)
    /\ \A i \in ParamPositions :
         /\ HasOwn(ret.params, ParamName(i))
         /\ OwnValue(ret.params, ParamName(i)) = Str(Segments(args.requestPath.s)[i])

\* C3 (amended): on a match, pathParams holds exactly one entry per distinct
\* parameter name other than __proto__, mapping the name to the raw request
\* segment at the last position where the pattern carries that name, and no
\* other entries.
Thm_C3 ==
  Matched =>
    LET names == { ParamName(i) : i \in ParamPositions } \ {K_proto} IN
    /\ ParamKeys = names
    /\ Len(ret.params.e) = Cardinality(names)
    /\ \A n \in names :
         OwnValue(ret.params, n) =
           Str(Segments(args.requestPath.s)[Max({ i \in ParamPositions : ParamName(i) = n })])

\* a pattern with the same name at two positions matched a path whose segments
\* at those positions differ
Wit_C3 ==
  /\ Matched
  /\ \E i, j \in ParamPositions :
       /\ i < j
       /\ ParamName(i) = ParamName(j)
       /\ Segments(args.requestPath.s)[i] # Segments(args.requestPath.s)[j]

\* C4: a well-formed route whose method equals the method argument ignoring letter
\* case, on either side, and whose path matches is eligible: findMatchingRoute
\* returns a route.
Orig_C4 ==
  Returned =>
    ((\E i \in DOMAIN args.routes.e :
        EligibleAnyCase(args.routes.e[i], args.method, args.path))
      => ret.route # Null)

\* C5: findMatchingRoute never throws, whatever the routes, method and path are.
Orig_C5 == pc = "findMatchingRoute" => ~ret.threw

(***************************************************************************)
(* Properties of the response processor.                                   *)
(***************************************************************************)
\* the timestamp a date expression of the documented grammar stands for at clock
ExpectedDate(e, clock) ==
  CASE e = T_currentDate -> clock \div 1000
    [] e = E_plus5 -> clock \div 1000 + 5
    [] e = E_minus5 -> clock \div 1000 - 5
    [] e = E_ms -> clock
    [] e = E_msPlus5 -> clock + 5
    [] e = E_msMinus5 -> clock - 5

T_U == <<"U">>
IdTsTemplate(a, b) == Obj(<<KV(N_id, a), KV(N_ts, b)>>)
IsDateField(v) == \E e \in DateExprs : v = Str(PH(T_date, e))

TokenRequested ==
  /\ pc = "handleRequest"
  /\ toLowerCase(args.req.method.s) = S_post
  /\ args.req.path = Str(P_auth_7)
  /\ \E i \in DOMAIN Get(args.data, K_routes).e : Get(args.data, K_routes).e[i] = TokenRoute

\* the fields of the token response that are exactly a date placeholder
DateFields ==
  { <<N_issuedAt, T_currentDate>>, <<N_expiresAt, E_plus5>>, <<N_past, E_minus5>>,
    <<N_issuedAtMs, E_ms>>, <<N_expiresAtMs, E_msPlus5>> }

Affixes == { <<>>, T_U }

\* the JSON texts of the values in FullBody, as written out by hand
T_AnnJson == <<Quote, "A", "n", "n", Quote>>
T_userJson == <<"{", Quote, "n", "a", "m", "e", Quote, ":", Quote, "A", "n", "n", Quote, "}">>
BodyTexts ==
  { <<PH(T_body, K_name), T_AnnJson>>, <<PH(T_body, N_user), T_userJson>>,
    <<PH(T_body, N_n), <<"5">> >>, <<PH_body_user_name, T_AnnJson>> }

\* C8: a resolved {body.<path>} placeholder is replaced by the JSON text of the
\* value (the string Ann by the five characters "Ann", an object by its JSON
\* encoding), a resolved {params.<name>} or {query.<name>} placeholder by the raw
\* value without quotes, alone, next to literal text and next to each other
Orig_C8 ==
  pc = "interpolateString" =>
    LET pp == args.ctx.pathParams
        qp == args.ctx.queryParams
    IN
    /\ \A pre \in Affixes, post \in Affixes :
         /\ (HasOwn(pp, N_id) /\ args.str = pre \o PH(T_params, N_id) \o post) =>
              ret.value = Str(pre \o OwnValue(pp, N_id).s \o post)
         /\ (HasOwn(qp, N_q) /\ args.str = pre \o PH(T_query, N_q) \o post) =>
              ret.value = Str(pre \o OwnValue(qp, N_q).s \o post)
         /\ args.ctx.body = FullBody =>
              \A bt \in BodyTexts :
                (args.str = pre \o bt[1] \o post => ret.value = Str(pre \o bt[2] \o post))
    /\ (HasOwn(pp, N_id) /\ args.ctx.body = FullBody) =>
         /\ args.str = PH(T_params, N_id) \o PH(T_body, K_name) =>
              ret.value = Str(OwnValue(pp, N_id).s \o T_AnnJson)
         /\ args.str = PH(T_body, K_name) \o PH(T_params, N_id) =>
              ret.value = Str(T_AnnJson \o OwnValue(pp, N_id).s)
    /\ (HasOwn(qp, N_q) /\ args.ctx.body = FullBody) =>
         (args.str = PH(T_query, N_q) \o PH(T_body, N_user) =>
            ret.value = Str(OwnValue(qp, N_q).s \o T_userJson))

\* whether the body has the property (a request without a body has none)
BodyHas(body, name) == body.t = "object" /\ HasOwn(body, name)

\* C9: a placeholder that cannot be resolved renders to its own text: {params.x}
\* with x absent from pathParams, {query.x} with x absent from queryParams,
\* {body.x} with x absent from the body, {date:<expr>} with an unparsable expression
Orig_C9 ==
  pc = "interpolateString" =>
    /\ \A x \in {N_id, N_zz, K_constructor} :
         (args.str = PH(T_params, x) /\ ~HasOwn(args.ctx.pathParams, x)) =>
           ret.value = Str(args.str)
    /\ \A x \in {N_q, N_zz} :
         (args.str = PH(T_query, x) /\ ~HasOwn(args.ctx.queryParams, x)) =>
           ret.value = Str(args.str)
    /\ \A x \in {K_name, N_user, N_n, N_zz} :
         (args.str = PH(T_body, x) /\ ~BodyHas(args.ctx.body, x)) =>
           ret.value = Str(args.str)
    /\ args.str = PH(T_date, E_bad) => ret.value = Str(args.str)

\* C10: rendering the rendered value again, with the same context and at the same
\* clock value, changes nothing
Orig_C10 ==
  pc = "processResponseAgain" => (~ret.threw /\ ret.second = ret.first)

\* the numbers the digit strings of the model denote
OffsetValues == { << <<"5">>, 5 >>, << <<"6", "0">>, 60 >> }

\* C11: with the wall clock at now milliseconds, processDateExpression returns
\* floor(now/1000) for currentDate, now for currentDate(ms), and that base plus or
\* minus N for an offset, in the unit the (ms) marker selects; white space around
\* the sign does not change the result
Thm_C11 ==
  pc = "processDateExpression" =>
    /\ args.expression = T_currentDate => ret = Num(now \div 1000)
    /\ args.expression = E_ms => ret = Num(now)
    /\ \A ms \in BOOLEAN, before \in Spaces, after \in Spaces, o \in OffsetValues :
         LET base == IF ms THEN now ELSE now \div 1000 IN
         /\ args.expression = DateExpr(ms, before, "+", after, o[1]) =>
              ret = Num(base + o[2])
         /\ args.expression = DateExpr(ms, before, "-", after, o[1]) =>
              ret = Num(base - o[2])

\* currentDate(ms) - 60 with white space on both sides of the sign
Wit_C11 ==
  /\ pc = "processDateExpression"
  /\ args.expression = DateExpr(TRUE, <<" ">>, "-", <<" ", "\t">>, <<"6", "0">>)
  /\ ret = Num(now - 60)
  /\ now \div 1000 # (now - 1) \div 1000

(***************************************************************************)
(* Properties of the cache and the storage backend.                        *)
(***************************************************************************)
\* caller p has completed a call of op and still holds its outcome
Done(p, op) == procs[p].op = op /\ procs[p].pc = "done"

\* how many backend reads a call issued
Reads(call) == IF call.io = "none" THEN 0 ELSE 1

\* C12: of two getApiData calls that follow one another, with backend reads that
\* succeed: when their Date.now() readings are less than ttl apart, the backend is
\* read at most once and the second call returns the cached document; when they
\* are ttl or more apart, the second call reads the backend again and stores the
\* document with its own Date.now() as the timestamp
Thm_C12 ==
  LET a == last
      b == procs[1]
  IN (Done(1, "getApiData") /\ a.op = "getApiData" /\ a.io # "failed" /\ b.io # "failed") =>
       /\ b.t - a.t < cache.ttl =>
            /\ Reads(a) + Reads(b) <= 1
            /\ b.res = cache.data
            /\ a.io = "ok" => (b.io = "none" /\ b.res = a.res)
       /\ b.t - a.t >= cache.ttl =>
            /\ b.io = "ok"
            /\ b.res = storage
            /\ cache.data = b.res
            /\ cache.timestamp = b.t

\* the second call comes ttl - 1 milliseconds after the first, which read the
\* backend, and is served from the cache
Wit_C12 ==
  /\ Done(1, "getApiData")
  /\ last.op = "getApiData" /\ last.io = "ok"
  /\ procs[1].t - last.t = cache.ttl - 1
  /\ procs[1].io = "none"
  /\ procs[1].res = last.res

\* C13: when saveApiData(D) succeeds it returns true, the backend and the cache
\* hold D and the cache timestamp is the Date.now() of the save; the getApiData
\* that follows less than ttl later returns D without a backend read
Thm_C13 ==
  /\ (Done(1, "saveApiData") /\ procs[1].io = "ok") =>
       /\ ~procs[1].threw
       /\ procs[1].res = Bool(TRUE)
       /\ storage = procs[1].arg
       /\ cache.data = procs[1].arg
       /\ cache.timestamp = procs[1].t
  /\ (Done(1, "getApiData") /\ last.op = "saveApiData" /\ last.io = "ok"
        /\ procs[1].t - last.t < cache.ttl) =>
       /\ procs[1].io = "none"
       /\ procs[1].res = storage
       /\ procs[1].res \in SavedDocs

\* getApiData one millisecond after a successful saveApiData(DocA)
Wit_C13 ==
  /\ Done(1, "getApiData")
  /\ last.op = "saveApiData" /\ last.io = "ok"
  /\ procs[1].t - last.t = 1
  /\ procs[1].io = "none"
  /\ procs[1].res = DocA

\* C14: when the backend read fails, getApiData does not throw and returns
\* {routes: [], mockData: {}}, and the request handled on top of it is answered
\* with the structured 404 result
Thm_C14 ==
  /\ (Done(1, "getApiData") /\ procs[1].io = "failed") =>
       /\ ~procs[1].threw
       /\ procs[1].res = Obj(<<KV(K_routes, Arr(<<>>)), KV(K_mockData, Obj(<<>>))>>)
  /\ (Done(1, "middleware") /\ procs[1].io = "failed") =>
       /\ ~procs[1].threw
       /\ ~procs[1].handled.threw
       /\ procs[1].handled.statusCode = Num(404)
       /\ procs[1].out.sent
       /\ procs[1].out.status = Num(404)
       /\ HasOwn(procs[1].out.body, K_error)
       /\ Get(procs[1].out.body, K_requestedPath) = procs[1].arg.path
       /\ Get(procs[1].out.body, K_requestedMethod) = Str(toLowerCase(procs[1].arg.method.s))

\* GET /a/b is answered 404 although the backend holds a route for it: the read failed
Wit_C14 ==
  /\ Done(1, "middleware")
  /\ procs[1].io = "failed"
  /\ storage = DocA
  /\ procs[1].arg = Req(S_GET, P_a_b)
  /\ procs[1].out.status = Num(404)

\* C15: when the backend write fails, saveApiData rejects with the backend's
\* error, and POST /mock-data is answered with status 500 and an error body
Thm_C15 ==
  \A op \in {"saveApiData", "postMockData"} :
    (Done(1, op) /\ procs[1].io = "failed") =>
      /\ procs[1].threw
      /\ procs[1].res = Str(T_backendError)
      /\ op = "postMockData" =>
           /\ procs[1].out.sent
           /\ procs[1].out.status = Num(500)
           /\ HasOwn(procs[1].out.body, K_error)

Wit_C15 ==
  /\ Done(1, "postMockData")
  /\ procs[1].io = "failed"
  /\ procs[1].threw
  /\ procs[1].out.status = Num(500)

\* both callers have completed getApiData calls that overlapped: each found the
\* cache empty or stale while the other was awaiting its backend read
Overlapped == \A p \in Callers : Done(p, "getApiData") /\ procs[p].over

Handled ==
  /\ procs[1].op = "middleware"
  /\ procs[1].pc \in {"delay", "done"}
  /\ ~procs[1].out.next

\* the positions of the route definitions that match the request of caller 1
\* (method compared without regard to letter case, pattern against path)
Matching ==
  LET routes == Get(procs[1].data, K_routes).e IN
  { i \in DOMAIN routes :
      EligibleAnyCase(routes[i], procs[1].arg.method, procs[1].arg.path) }

\* C17: within one request the document is obtained, then the route is matched,
\* then its response is rendered, then the route's delay elapses, and only then
\* is the body sent: never before the full delay has passed since the rendering
Thm_C17 ==
  LET me == procs[1] IN
  /\ (me.op = "middleware" /\ me.pc = "delay") =>
       /\ ~me.out.sent
       /\ me.out.body = Undef
       /\ me.out.stages = <<"data", "match", "render", "delay">>
  /\ (Done(1, "middleware") /\ Handled /\ ~me.handled.threw
        /\ me.handled.statusCode # Num(404) /\ me.out.status # Num(500)) =>
       /\ me.out.sent
       /\ me.t <= me.out.renderedAt
       /\ me.out.renderedAt <= me.out.sentAt
       /\ me.handled.delay = Num(RouteDelay) =>
            /\ me.out.stages = <<"data", "match", "render", "delay", "send">>
            /\ me.out.sentAt - me.out.renderedAt >= RouteDelay
       /\ me.handled.delay = Undef =>
            me.out.stages = <<"data", "match", "render", "send">>

\* the delayed route is answered RouteDelay milliseconds after it was rendered
Wit_C17 ==
  /\ Done(1, "middleware")
  /\ procs[1].handled.delay = Num(RouteDelay)
  /\ procs[1].out.sent
  /\ procs[1].out.status = Num(201)
  /\ procs[1].out.sentAt - procs[1].out.renderedAt = RouteDelay

\* C18: when no route definition matches the request, handleRequest resolves to
\* statusCode 404 with a body of error, requestedPath and requestedMethod; when a
\* route matches, the result carries the route's statusCode (200 when it sets
\* none), its headers ({} when it sets none) and the rendered body
Orig_C18 ==
  Handled =>
    LET h == procs[1].handled
        req == procs[1].arg
        routes == Get(procs[1].data, K_routes).e
    IN /\ ~h.threw
       /\ Matching = {} =>
            /\ h.statusCode = Num(404)
            /\ HasOwn(h.body, K_error)
            /\ Get(h.body, K_requestedPath) = req.path
            /\ Get(h.body, K_requestedMethod) = Str(toLowerCase(req.method.s))
       /\ Matching # {} =>
            LET route == routes[Min(Matching)] IN
            /\ h.statusCode = IF HasOwn(route, K_statusCode)
                              THEN OwnValue(route, K_statusCode) ELSE Num(200)
            /\ h.headers = IF HasOwn(route, K_headers)
                           THEN OwnValue(route, K_headers) ELSE Obj(<<>>)
            /\ route = IdRoute =>
                 h.body = Obj(<<KV(N_id, Str(Segments(req.path.s)[2]))>>)
            /\ route # IdRoute => h.body = OwnValue(route, K_response)

\* C19: whenever handleRequest or a step after it fails, the middleware answers
\* the request with status 500 and a body with an error field, and its promise
\* resolves
Thm_C19 ==
  /\ \A p \in Callers : procs[p].op = "middleware" => ~procs[p].threw
  /\ (Done(1, "middleware") /\ Handled
        /\ (procs[1].handled.threw \/ HeaderRejected(procs[1].handled.headers))) =>
       /\ procs[1].out.sent
       /\ procs[1].out.status = Num(500)
       /\ HasOwn(procs[1].out.body, K_error)

\* a route whose method is a number makes handleRequest reject: 500 is answered
Wit_C19 ==
  /\ Done(1, "middleware")
  /\ Handled
  /\ procs[1].handled.threw
  /\ procs[1].data = DocB
  /\ procs[1].out.status = Num(500)

NonStringLeaf(v) == v.t \in {"null", "undefined", "number", "boolean"}

\* C21: rendering never fails on a leaf that is not a string and returns it
\* unchanged: null for null, undefined for an undefined template, numbers and
\* booleans as they are; an array renders to an array of the same length whose
\* elements are the renderings of its elements in order; for the template handed
\* to processResponse as for the values nested in it
Orig_C21 ==
  pc = "processResponse" =>
    /\ NonStringLeaf(args.template) => (~ret.threw /\ ret.value = args.template)
    /\ args.template.t = "array" =>
         /\ ~ret.threw
         /\ ret.value.t = "array"
         /\ Len(ret.value.e) = Len(args.template.e)
         /\ \A i \in DOMAIN args.template.e :
              /\ ret.value.e[i] = processObject(args.template.e[i], args.ctx, now)
              /\ NonStringLeaf(args.template.e[i]) =>
                   ret.value.e[i] = args.template.e[i]
    /\ args.template.t = "object" =>
         /\ ~ret.threw
         /\ \A i \in DOMAIN args.template.e :
              (NonStringLeaf(args.template.e[i].v)
               /\ interpolateString(args.template.e[i].k, args.ctx, now)
                    = Str(args.template.e[i].k)) =>
                Get(ret.value, args.template.e[i].k) = args.template.e[i].v

\* C22: MemoryAdapter stores a copy: what is read after saveData(d) is deep-equal
\* to d as it was saved and is not the object d itself, whatever the caller did
\* to d after the save; the same for a cache filled from the adapter
Orig_C22 ==
  (mem.savedRef # 0 /\ mem.got # 0) =>
    /\ mem.got # mem.savedRef
    /\ mem.heap[mem.got] = mem.saved

\* C23: under every interleaving of getApiData and saveApiData calls, once a save
\* has resolved the cached document is the one saved last: a getApiData whose
\* read was in flight when the save completed does not put the older document
\* it read into the cache (a refetch after expiry reads the saved document again)
Orig_C23 ==
  storage \in SavedDocs => cache.data = storage

\* a step in which a backend operation of some caller succeeds and its call resumes
SucceededStep ==
  \E p \in Callers :
    /\ procs[p].pc \in {"awaitRead", "awaitWrite"}
    /\ procs'[p].pc # procs[p].pc
    /\ procs'[p].io = "ok"

\* C24: a failed backend operation leaves the cache unchanged: no step of a call
\* changes cache.data or cache.timestamp except the resumption after a backend
\* operation that succeeded, so after a failed read and after a failed write the
\* cache is as it was before the call; the fallback document of a failed read is
\* not cached, and the getApiData that follows a failed one reads the backend again
Thm_C24 ==
  /\ [][cache' # cache => SucceededStep]_vars
  /\ []((last.op = "getApiData" /\ last.io = "failed" /\ Done(1, "getApiData"))
          => procs[1].io # "none")

\* a getApiData whose read failed is followed by one that reads the backend, with
\* the cache still as the failed call found it until that read resolved
Wit_C24 ==
  /\ last.op = "getApiData"
  /\ last.io = "failed"
  /\ last.res = EmptyDoc
  /\ procs[1].op = "getApiData"
  /\ procs[1].pc = "awaitRead"
  /\ cache = NewCache

\* C25: cache.timestamp never decreases: under every interleaving of overlapping
\* getApiData and saveApiData calls, with a clock that does not go back, each
\* update of the cache sets a timestamp no lower than the one it replaces
Orig_C25 == [][cache'.timestamp >= cache.timestamp]_vars

\* the pieces of a template whose values the context gives directly
ValuePieces == { PH(T_params, N_id), PH(T_query, N_q), T_U }

\* what a piece stands for by itself: the value of its parameter, or its own text
PieceValue(piece, ctx) ==
  IF piece = PH(T_params, N_id) /\ HasOwn(ctx.pathParams, N_id)
  THEN StringOf(Get(ctx.pathParams, N_id))
  ELSE IF piece = PH(T_query, N_q) /\ HasOwn(ctx.queryParams, N_q)
  THEN StringOf(Get(ctx.queryParams, N_q))
  ELSE piece

\* C26: text inserted by one placeholder rule is not expanded by another: the
\* rendered string is the template with each placeholder occurrence replaced by
\* its value, each by itself, so a path or query value that holds '{query.x}' or
\* '{body.x}' appears verbatim
Orig_C26 ==
  pc = "interpolateString" =>
    \A ps \in SeqsUpTo(ValuePieces, MaxPieces) :
      args.str = Flatten(ps) =>
        ret.value = Str(Flatten([i \in DOMAIN ps |-> PieceValue(ps[i], args.ctx)]))

\* the {body.<path>} placeholders of the templates, with the segments of the path
BodyPaths ==
  { <<PH(T_body, K_name), <<K_name>> >>, <<PH(T_body, N_user), <<N_user>> >>,
    <<PH(T_body, N_n), <<N_n>> >>, <<PH(T_body, N_zz), <<N_zz>> >>,
    <<PH_body_user_name, <<N_user, K_name>> >>,
    <<PH_body_name_length, <<K_name, K_length>> >>,
    <<PH_body_n_zz, <<N_n, N_zz>> >>,
    <<PH_body_user_zz, <<N_user, N_zz>> >>,
    <<PH_body_zz_name, <<N_zz, K_name>> >> }

RECURSIVE Traversed(_, _, _)
\* whether every segment from the i-th on names a field of an object, starting at v
Traversed(v, parts, i) ==
  IF i > Len(parts) THEN TRUE
  ELSE /\ v.t = "object"
       /\ HasOwn(v, parts[i])
       /\ Traversed(OwnValue(v, parts[i]), parts, i + 1)

\* C27: a {body.<dotted.path>} placeholder is replaced only when every segment
\* of the path names a field of an object (or array) of the body: with a segment
\* missing, or a path that steps into a string, number, boolean or null, the
\* placeholder is left as it is
Orig_C27 ==
  pc = "interpolateString" =>
    \A bp \in BodyPaths :
      (args.str = bp[1] /\ ~Traversed(args.ctx.body, bp[2], 1)) =>
        ret.value = Str(args.str)

\* the documented grammar: currentDate, or currentDate, optional white space, a
\* sign, optional white space and a non-negative integer
InGrammar(clean) ==
  \/ clean = T_currentDate
  \/ /\ startsWith(clean, T_currentDate)
     /\ \E k \in (Len(T_currentDate) + 1)..(Len(clean) - 1) :
          /\ clean[k] \in {"+", "-"}
          /\ \A j \in (Len(T_currentDate) + 1)..(k - 1) : IsSpace(clean[j])
          /\ \E d \in (k + 1)..Len(clean) :
               /\ \A j \in (k + 1)..(d - 1) : IsSpace(clean[j])
               /\ \A j \in d..Len(clean) : IsDigit(clean[j])

\* C28: processDateExpression accepts exactly the documented grammar: with the
\* (ms) marker removed, it returns a timestamp when the rest is in the grammar and
\* null for every other form, currentDate with white space around it included
Orig_C28 ==
  pc = "processDateExpression" =>
    (ret # Null <=> InGrammar(removeFirst(args.expression, T_ms)))

\* the path p with leading and trailing slashes added or removed
SlashVariants(p) == { PathOf(Segments(p), lead, trail) : lead \in BOOLEAN, trail \in BOOLEAN }

\* the route list with the slashes at the ends of every route pattern set anew
Reslashed(routes, lead, trail) ==
  Arr([i \in DOMAIN routes.e |->
         IF routes.e[i].t = "object" /\ Field(routes.e[i], K_path).t = "string"
         THEN SetProp(routes.e[i], K_path,
                      Str(PathOf(Segments(Field(routes.e[i], K_path).s), lead, trail)))
         ELSE routes.e[i]])

\* the same entry of the list and the same parameters (or the same failure)
SameMatch(r, q) == r.threw = q.threw /\ r.index = q.index /\ r.pathParams = q.pathParams

\* C29: leading and trailing slashes do not matter to matching: findMatchingRoute
\* gives the same route and pathParams for the path with slashes added or removed
\* at its ends, the root path '/' and the empty path included, and for the route
\* list with slashes added to or removed from the patterns
Orig_C29 ==
  (pc = "findMatchingRoute" /\ args.path.t = "string" /\ IsArray(args.routes)) =>
    /\ \A p \in SlashVariants(args.path.s) :
         SameMatch(findMatchingRoute(args.routes, args.method, Str(p)), ret)
    /\ \A lead \in BOOLEAN, trail \in BOOLEAN :
         SameMatch(findMatchingRoute(Reslashed(args.routes, lead, trail),
                                     args.method, args.path), ret)

\* how often the middleware did what: "next" for a call of next(), "send" for a
\* call of res.json
Times(stages, what) == Cardinality({ i \in DOMAIN stages : stages[i] = what })

\* C30: every request handed to the middleware gets exactly one outcome: for
\* /mock-data next() is called once and nothing is written to the response; for
\* every other request next() is never called and res.json is called exactly
\* once, for a matched route, a 404, a delayed route and a failure; before the
\* middleware is done nothing has been sent
Thm_C30 ==
  \A p \in Callers :
    procs[p].op = "middleware" =>
      LET o == procs[p].out IN
      /\ procs[p].arg.path = Str(P_mock_data) =>
           /\ procs[p].pc = "done"
           /\ Times(o.stages, "next") = 1 /\ o.next
           /\ Times(o.stages, "send") = 0 /\ ~o.sent
           /\ o.status = 0 /\ o.headers = Undef /\ o.body = Undef
      /\ procs[p].arg.path # Str(P_mock_data) =>
           /\ Times(o.stages, "next") = 0 /\ ~o.next
           /\ procs[p].pc = "done" => (Times(o.stages, "send") = 1 /\ o.sent)
           /\ procs[p].pc # "done" => (Times(o.stages, "send") = 0 /\ ~o.sent)

\* the delayed route has been answered, once, after a request for /mock-data was
\* passed on with next()
Wit_C30 ==
  /\ Done(1, "middleware")
  /\ procs[1].arg.path = Str(P_b)
  /\ procs[1].out.stages = <<"data", "match", "render", "delay", "send">>
  /\ procs[1].out.status = Num(201)
  /\ last.op = "middleware"
  /\ last.res = Undef

====
